---------------------------- MODULE Spec2Model ----------------------------
(***************************************************************************)
(* Model of the gssh wrapper (src/main.go): resolution of a host profile   *)
(* from flags, GSSH_ environment variables, a target's YAML file and       *)
(* defaults; construction of the ssh argument list; rendering of the       *)
(* command for display; listing of targets; execution of ssh and           *)
(* propagation of its exit status.                                         *)
(*                                                                         *)
(* A Go string is modelled as a sequence of one-character strings, so      *)
(* that formatting, quoting, extension handling and sorting are computed   *)
(* character by character as the code computes them.                       *)
(***************************************************************************)
EXTENDS Integers, Sequences, FiniteSets, TLC

VARIABLES
    pc,            \* position of main(): see the actions below
    flagTarget,    \* --target
    flagHost,      \* --host
    flagUser,      \* --user
    flagPort,      \* --port
    flagIdentity,  \* --identity
    flagList,      \* --list
    flagDryRun,    \* --dry-run
    flagVerbose,   \* --verbose
    changed,       \* names of the profile flags given on the command line
    env,           \* GSSH_HOST, GSSH_USER, GSSH_PORT, GSSH_IDENTITY
    dirs,          \* what the candidate directories hold for the target
    config,        \* viper's config-file layer after ReadInConfig
    cfg,           \* HostConfig
    remoteCmd,     \* pflag.Args()
    sshArgs,       \* buildSSHArgs(cfg, remoteCmd)
    dirIdx,        \* index into configDirs of the --list loop
    found,         \* the --list loop's found
    stdout,        \* lines printed to standard output
    stderr,        \* lines printed to standard error
    lookups,       \* number of exec.LookPath("ssh") calls made
    child,         \* the ssh child: not spawned, or its arguments and outcome
    exitStatus,    \* exit status of the wrapper process, NoExit while running
    probe          \* a direct call of one of the pure functions, as in the tests

vars == <<pc, flagTarget, flagHost, flagUser, flagPort, flagIdentity, flagList,
          flagDryRun, flagVerbose, changed, env, dirs, config, cfg, remoteCmd,
          sshArgs, dirIdx, found, stdout, stderr, lookups, child, exitStatus,
          probe>>

flagVars == <<flagTarget, flagHost, flagUser, flagPort, flagIdentity, flagList,
              flagDryRun, flagVerbose, changed>>

-----------------------------------------------------------------------------
(* Bounds of the model.                                                    *)

\* longest argument given to renderCommand / quote
MaxLen == 3
\* most remote-command tokens given to buildSSHArgs
MaxTokens == 2
\* most entries of a directory given to listTargets
MaxEntries == 2
\* largest exit code of a normally terminating child
MaxExit == 1

-----------------------------------------------------------------------------
(* Strings.                                                                *)

\* the characters the model uses, in increasing byte order
AsciiOrder ==
    <<"\t", " ", "\"", "'", "-", ".", "0", "1", "2", "3", "4", "5", "6", "7",
      "8", "9", "@", "A", "L", "M", "Y", "\\", "a", "b", "h", "i", "k", "l",
      "m", "p", "q", "s", "t", "u", "x", "y">>

Ord(c) == CHOOSE i \in 1..Len(AsciiOrder) : AsciiOrder[i] = c

UpperLetters == <<"A", "L", "M", "Y">>
LowerLetters == <<"a", "l", "m", "y">>

ToLowerChar(c) ==
    IF \E i \in 1..Len(UpperLetters) : UpperLetters[i] = c
    THEN LowerLetters[CHOOSE i \in 1..Len(UpperLetters) : UpperLetters[i] = c]
    ELSE c

\* strings.ToLower
ToLower(s) == [i \in 1..Len(s) |-> ToLowerChar(s[i])]

\* strings.HasSuffix
HasSuffix(s, suffix) ==
    /\ Len(s) >= Len(suffix)
    /\ SubSeq(s, Len(s) - Len(suffix) + 1, Len(s)) = suffix

\* strings.TrimSuffix
TrimSuffix(s, suffix) ==
    IF HasSuffix(s, suffix) THEN SubSeq(s, 1, Len(s) - Len(suffix)) ELSE s

\* filepath.Ext of a name without path separators: from the last dot on
Ext(name) ==
    LET dots == {i \in 1..Len(name) : name[i] = "."}
    IN  IF dots = {} THEN <<>>
        ELSE LET last == CHOOSE i \in dots : \A j \in dots : j <= i
             IN  SubSeq(name, last, Len(name))

\* Go's < on strings: bytewise lexicographic order
RECURSIVE StrLess(_, _)
StrLess(a, b) ==
    IF b = <<>> THEN FALSE
    ELSE IF a = <<>> THEN TRUE
    ELSE IF a[1] # b[1] THEN Ord(a[1]) < Ord(b[1])
    ELSE StrLess(Tail(a), Tail(b))

\* insertion of x into an ascending sequence, after the elements not above it
RECURSIVE Insert(_, _)
Insert(x, sorted) ==
    IF sorted = <<>> THEN <<x>>
    ELSE IF StrLess(x, sorted[1]) THEN <<x>> \o sorted
    ELSE <<sorted[1]>> \o Insert(x, Tail(sorted))

\* sort.Strings
RECURSIVE SortStrings(_)
SortStrings(xs) ==
    IF xs = <<>> THEN <<>> ELSE Insert(xs[1], SortStrings(Tail(xs)))

Digits == <<"0", "1", "2", "3", "4", "5", "6", "7", "8", "9">>

\* fmt.Sprintf("%d", n)
RECURSIVE Itoa(_)
Itoa(n) ==
    IF n < 0 THEN <<"-">> \o Itoa(0 - n)
    ELSE IF n < 10 THEN <<Digits[n + 1]>>
    ELSE Itoa(n \div 10) \o <<Digits[(n % 10) + 1]>>

\* strings.Join(parts, " ")
RECURSIVE Join(_)
Join(parts) ==
    IF parts = <<>> THEN <<>>
    ELSE IF Len(parts) = 1 THEN parts[1]
    ELSE parts[1] \o <<" ">> \o Join(Tail(parts))

\* strings.ReplaceAll(s, old, new) for a one-character old
RECURSIVE ReplaceAll(_, _, _)
ReplaceAll(s, old, new) ==
    IF s = <<>> THEN <<>>
    ELSE (IF s[1] = old THEN new ELSE <<s[1]>>) \o ReplaceAll(Tail(s), old, new)

\* strings.ContainsAny
ContainsAny(s, chars) == \E i \in 1..Len(s) : s[i] \in chars

-----------------------------------------------------------------------------
(* listTargets                                                             *)

\* a directory entry's extension counts as YAML
IsYamlExt(ext) == ext = <<".", "y", "a", "m", "l">> \/ ext = <<".", "y", "m", "l">>

\* the loop of listTargets over the entries os.ReadDir returned
RECURSIVE CollectTargets(_)
CollectTargets(entries) ==
    IF entries = <<>> THEN <<>>
    ELSE LET e == entries[1]
             ext == ToLower(Ext(e.name))
         IN  (IF ~e.isDir /\ IsYamlExt(ext)
              THEN <<TrimSuffix(e.name, ext)>>
              ELSE <<>>) \o CollectTargets(Tail(entries))

\* listTargets(dir): dir is what os.ReadDir(dir) yields
listTargets(dir) ==
    IF dir.err THEN [err |-> TRUE, names |-> <<>>]
    ELSE [err |-> FALSE, names |-> SortStrings(CollectTargets(dir.entries))]

-----------------------------------------------------------------------------
(* buildSSHArgs                                                            *)

DefaultPort == 22

HostConfig(host, user, port, identity) ==
    [Host |-> host, User |-> user, Port |-> port, Identity |-> identity]

\* faulty variant: -p is emitted for every port, 22 included
buildSSHArgs_PortAlways(c, tokens) ==
    LET a1 == IF c.Identity # <<>> THEN <<<<"-", "i">>, c.Identity>> ELSE <<>>
        a2 == a1 \o <<<<"-", "p">>, Itoa(c.Port)>>
        dest == IF c.User # <<>> THEN c.User \o <<"@">> \o c.Host ELSE c.Host
        a3 == a2 \o <<dest>>
    IN  IF Len(tokens) > 0 THEN a3 \o tokens ELSE a3

buildSSHArgs(c, tokens) ==
    LET a1 == IF c.Identity # <<>> THEN <<<<"-", "i">>, c.Identity>> ELSE <<>>
        a2 == IF c.Port # 0 /\ c.Port # DefaultPort
              THEN a1 \o <<<<"-", "p">>, Itoa(c.Port)>>
              ELSE a1
        dest == IF c.User # <<>> THEN c.User \o <<"@">> \o c.Host ELSE c.Host
        a3 == a2 \o <<dest>>
    IN  IF Len(tokens) > 0 THEN a3 \o tokens ELSE a3

-----------------------------------------------------------------------------
(* renderCommand                                                           *)

needsQuoting(s) == ContainsAny(s, {" ", "\t", "\"", "'"})

\* faulty variant: double quotes are escaped before backslashes are doubled
quote_QuotesFirst(s) ==
    LET r1 == ReplaceAll(s, "\"", <<"\\", "\"">>)
        r2 == ReplaceAll(r1, "\\", <<"\\", "\\">>)
    IN  <<"\"">> \o r2 \o <<"\"">>

quote(s) ==
    LET r1 == ReplaceAll(s, "\\", <<"\\", "\\">>)
        r2 == ReplaceAll(r1, "\"", <<"\\", "\"">>)
    IN  <<"\"">> \o r2 \o <<"\"">>

RECURSIVE RenderParts(_)
RenderParts(args) ==
    IF args = <<>> THEN <<>>
    ELSE <<IF needsQuoting(args[1]) THEN quote(args[1]) ELSE args[1]>>
         \o RenderParts(Tail(args))

renderCommand(cmd, args) == Join(<<cmd>> \o RenderParts(args))

-----------------------------------------------------------------------------
(* Optional values: a flag, variable or key that is absent, or set to v.    *)

None == <<>>
Some(v) == <<v>>
IsSet(o) == o # <<>>
ValueOf(o) == o[1]

Fields == {"host", "user", "port", "identity"}

-----------------------------------------------------------------------------
(* viper: the layers consulted by v.GetString / v.GetInt                    *)

\* strconv parsing of a decimal string, as cast.ToInt applies it; 0 on error
RECURSIVE ParseDigits(_, _)
ParseDigits(s, acc) ==
    IF s = <<>> THEN acc
    ELSE ParseDigits(Tail(s),
                     10 * acc + (CHOOSE d \in 0..9 : Digits[d + 1] = s[1]))

IsDigits(s) ==
    /\ s # <<>>
    /\ \A i \in 1..Len(s) : \E d \in 1..10 : Digits[d] = s[i]

Atoi(s) ==
    IF IsDigits(s) THEN ParseDigits(s, 0)
    ELSE IF s # <<>> /\ s[1] = "-" /\ IsDigits(Tail(s)) THEN 0 - ParseDigits(Tail(s), 0)
    ELSE 0

\* value of a profile flag variable
FlagValue(key, fHost, fUser, fPort, fIdentity) ==
    CASE key = "host" -> fHost
      [] key = "user" -> fUser
      [] key = "port" -> fPort
      [] key = "identity" -> fIdentity

\* AutomaticEnv: a GSSH_ variable counts when it is defined and not empty
EnvLookup(e, key) ==
    IF IsSet(e[key]) /\ ValueOf(e[key]) # <<>> THEN e[key] ELSE None

\* faulty variant: the environment is consulted before the flags
Find_EnvFirst(key, chg, fHost, fUser, fPort, fIdentity, e, conf) ==
    LET kind == IF key = "port" THEN "int" ELSE "str"
        fromEnv == EnvLookup(e, key)
    IN  IF IsSet(fromEnv) THEN [t |-> "str", v |-> ValueOf(fromEnv)]
        ELSE IF key \in chg
        THEN [t |-> kind, v |-> FlagValue(key, fHost, fUser, fPort, fIdentity)]
        ELSE IF IsSet(conf[key]) THEN [t |-> kind, v |-> ValueOf(conf[key])]
        ELSE IF key = "port" THEN [t |-> "int", v |-> DefaultPort]
        ELSE [t |-> kind, v |-> FlagValue(key, fHost, fUser, fPort, fIdentity)]

\* viper's search for a key: a changed flag, then the environment, then the
\* config file, then the default, then the flag's default value.  The result
\* is tagged with the Go type of the value found.
Find(key, chg, fHost, fUser, fPort, fIdentity, e, conf) ==
    LET kind == IF key = "port" THEN "int" ELSE "str"
        fromEnv == EnvLookup(e, key)
    IN  IF key \in chg
        THEN [t |-> kind, v |-> FlagValue(key, fHost, fUser, fPort, fIdentity)]
        ELSE IF IsSet(fromEnv) THEN [t |-> "str", v |-> ValueOf(fromEnv)]
        ELSE IF IsSet(conf[key]) THEN [t |-> kind, v |-> ValueOf(conf[key])]
        ELSE IF key = "port" THEN [t |-> "int", v |-> DefaultPort]
        ELSE [t |-> kind, v |-> FlagValue(key, fHost, fUser, fPort, fIdentity)]

\* v.GetString
GetString(x) == IF x.t = "str" THEN x.v ELSE Itoa(x.v)

\* v.GetInt
GetInt(x) == IF x.t = "int" THEN x.v ELSE Atoi(x.v)

\* the config-file layer when no file has been read
EmptyConfig == [k \in Fields |-> None]

\* faulty variant: an unparsable file is skipped and the search goes on
RECURSIVE ReadInConfig_SkipsUnparsable(_)
ReadInConfig_SkipsUnparsable(ds) ==
    IF ds = <<>> THEN [err |-> "notfound", conf |-> [k \in Fields |-> None]]
    ELSE IF ds[1].state # "ok" THEN ReadInConfig_SkipsUnparsable(Tail(ds))
    ELSE [err |-> "", conf |-> ds[1].profile]

\* v.ReadInConfig over the config paths in order: the first directory that
\* holds the target's file decides; the file is then parsed
RECURSIVE ReadInConfig(_)
ReadInConfig(ds) ==
    IF ds = <<>> THEN [err |-> "notfound", conf |-> EmptyConfig]
    ELSE IF ds[1].state = "missing" THEN ReadInConfig(Tail(ds))
    ELSE IF ds[1].state = "bad" THEN [err |-> "parse", conf |-> EmptyConfig]
    ELSE [err |-> "", conf |-> ds[1].profile]

-----------------------------------------------------------------------------
(* Process exit and output                                                  *)

NoExit == 0 - 1

\* the status the parent observes after os.Exit(code)
ExitByte(code) == code % 256

Banner == [kind |-> "banner", text |-> <<>>, dir |-> 0]
NoTargetsLine == [kind |-> "none", text |-> <<>>, dir |-> 0]
TargetLine(name, d) == [kind |-> "target", text |-> name, dir |-> d]
CommandLine(text) == [kind |-> "cmd", text |-> text, dir |-> 0]

\* the line fatal() writes: "error: " followed by the message
FatalLine(kind, target) == [prefix |-> "error: ", kind |-> kind, target |-> target]

\* fatal(): one line on standard error, then os.Exit(1)
Fatal(kind, target) ==
    /\ stderr' = Append(stderr, FatalLine(kind, target))
    /\ exitStatus' = ExitByte(1)
    /\ pc' = "done"

\* os.Exit(code), or main returning (code 0)
Exit(code) ==
    /\ exitStatus' = ExitByte(code)
    /\ pc' = "done"
    /\ UNCHANGED stderr

NoChild == [spawned |-> FALSE, args |-> <<>>, outcome |-> "none", code |-> 0]

\* exec.ExitError.ExitCode(): the exit code, or -1 when the child did not exit
ExitCode(outcome, code) == IF outcome = "exited" THEN code ELSE 0 - 1

-----------------------------------------------------------------------------
(* Inputs of a run: the command line, the environment, the file system,     *)
(* the ssh executable and its outcome.                                      *)

\* values a profile flag takes when it is given on the command line
FlagHosts == {<<>>, <<"h", "1">>}
FlagUsers == {<<"u", "1">>}
FlagPorts == {0, 2222}
FlagIdentities == {<<"k", "1">>}

\* values of the GSSH_ variables when they are defined
EnvHosts == {<<>>, <<"h", "2">>}
EnvUsers == {<<"u", "2">>}
EnvPorts == {<<"2", "3">>}
EnvIdentities == {<<"k", "2">>}

Opt(S) == {None} \cup {Some(v) : v \in S}

Envs ==
    [host : Opt(EnvHosts), user : Opt(EnvUsers), port : Opt(EnvPorts),
     identity : Opt(EnvIdentities)]

\* profiles a target's YAML file in the --config directory may hold
FileProfiles ==
    [host : Opt({<<"h", "3">>}), user : Opt({<<"u", "3">>}),
     port : Opt({0 - 1, 2200}), identity : Opt({<<"k", "3">>})]

\* the profile of the target's YAML file in the home-relative directory
HomeProfile ==
    [host |-> Some(<<"h", "4">>), user |-> Some(<<"u", "4">>),
     port |-> Some(2204), identity |-> Some(<<"k", "4">>)]

Missing == [state |-> "missing", profile |-> EmptyConfig]
Unparsable == [state |-> "bad", profile |-> EmptyConfig]
Holds(p) == [state |-> "ok", profile |-> p]

\* what the two candidate directories hold for the target, in search order
TargetDirs ==
    {<<d1, d2>> : d1 \in {Missing, Unparsable} \cup {Holds(p) : p \in FileProfiles},
                  d2 \in {Missing, Unparsable, Holds(HomeProfile)}}

Entry(name, isDir) == [name |-> name, isDir |-> isDir]
Unreadable == [err |-> TRUE, entries |-> <<>>]
Directory(entries) == [err |-> FALSE, entries |-> entries]

\* what os.ReadDir may yield for a candidate directory of the --list loop
ListedDirs ==
    { Unreadable,
      Directory(<<>>),
      Directory(<<Entry(<<"a", ".", "t", "x", "t">>, FALSE),
                  Entry(<<"s", "u", "b">>, TRUE)>>),
      Directory(<<Entry(<<"b", ".", "y", "m", "l">>, FALSE),
                  Entry(<<"i", "p", "a", ".", "y", "a", "m", "l">>, FALSE)>>) }

\* remote-command tokens after the flags
RemoteCmds == {<<>>, <<<<"l", "s">>, <<"-", "l", "a">>>>, <<<<"a", " ", "b">>>>}

\* how the ssh child ends: it cannot be started, it exits with a code, it is
\* killed by a signal, or waiting for it fails
ChildOutcomes ==
    {[outcome |-> "startfail", code |-> 0], [outcome |-> "signaled", code |-> 0],
     [outcome |-> "waitfail", code |-> 0]}
    \cup {[outcome |-> "exited", code |-> c] : c \in 0..MaxExit \cup {255}}

NoProbe == [fn |-> "none", done |-> FALSE]

-----------------------------------------------------------------------------
(* main()                                                                   *)

\* the state after pflag.Parse() (line 61)
Init ==
    /\ pc = "start"
    /\ flagTarget \in {<<>>, <<"t">>}
    /\ changed \in SUBSET Fields
    /\ flagHost \in (IF "host" \in changed THEN FlagHosts ELSE {<<>>})
    /\ flagUser \in (IF "user" \in changed THEN FlagUsers ELSE {<<>>})
    /\ flagPort \in (IF "port" \in changed THEN FlagPorts ELSE {DefaultPort})
    /\ flagIdentity \in (IF "identity" \in changed THEN FlagIdentities ELSE {<<>>})
    /\ flagList \in BOOLEAN
    /\ flagDryRun \in BOOLEAN
    /\ flagVerbose \in BOOLEAN
    /\ env \in Envs
    /\ dirs = <<>>
    /\ config = EmptyConfig
    /\ cfg = HostConfig(<<>>, <<>>, 0, <<>>)
    /\ remoteCmd = <<>>
    /\ sshArgs = <<>>
    /\ dirIdx = 1
    /\ found = FALSE
    /\ stdout = <<>>
    /\ stderr = <<>>
    /\ lookups = 0
    /\ child = NoChild
    /\ exitStatus = NoExit
    /\ probe = NoProbe

\* lines 35-82: the banner, os.UserHomeDir and the candidate directories
Start ==
    /\ pc = "start"
    /\ stdout' = Append(stdout, Banner)
    /\ \E homeErr \in BOOLEAN :
          IF homeErr
          THEN Fatal("home", <<>>)
          ELSE /\ pc' = IF flagList THEN "list" ELSE "load"
               /\ UNCHANGED <<stderr, exitStatus>>
    /\ UNCHANGED <<flagVars, env, dirs, config, cfg, remoteCmd, sshArgs, dirIdx,
                   found, lookups, child, probe>>

RECURSIVE TargetLines(_, _)
TargetLines(names, d) ==
    IF names = <<>> THEN <<>>
    ELSE <<TargetLine(names[1], d)>> \o TargetLines(Tail(names), d)

\* lines 84-92: one iteration of the --list loop over configDirs
ListDir ==
    /\ pc = "list"
    /\ dirIdx <= 2
    /\ \E d \in ListedDirs :
          LET r == listTargets(d)
          IN  IF ~r.err /\ Len(r.names) > 0
              THEN /\ stdout' = stdout \o TargetLines(r.names, dirIdx)
                   /\ found' = TRUE
              ELSE UNCHANGED <<stdout, found>>
    /\ dirIdx' = dirIdx + 1
    /\ UNCHANGED <<pc, flagVars, env, dirs, config, cfg, remoteCmd, sshArgs,
                   stderr, lookups, child, exitStatus, probe>>

\* faulty variant: a listing without targets ends with status 1
ListDone_FailsWhenEmpty ==
    /\ pc = "list"
    /\ dirIdx > 2
    /\ stdout' = IF ~found THEN Append(stdout, NoTargetsLine) ELSE stdout
    /\ Exit(IF found THEN 0 ELSE 1)
    /\ UNCHANGED <<flagVars, env, dirs, config, cfg, remoteCmd, sshArgs, dirIdx,
                   found, lookups, child, probe>>

\* lines 93-96: after the loop
ListDone ==
    /\ pc = "list"
    /\ dirIdx > 2
    /\ stdout' = IF ~found THEN Append(stdout, NoTargetsLine) ELSE stdout
    /\ Exit(0)
    /\ UNCHANGED <<flagVars, env, dirs, config, cfg, remoteCmd, sshArgs, dirIdx,
                   found, lookups, child, probe>>

\* lines 99-109: read the target's file when a target is named
LoadConfig ==
    /\ pc = "load"
    /\ IF flagTarget # <<>>
       THEN \E ds \in TargetDirs :
               LET r == ReadInConfig(ds)
               IN  /\ dirs' = ds
                   /\ IF r.err # ""
                      THEN /\ Fatal("config", flagTarget)
                           /\ UNCHANGED config
                      ELSE /\ config' = r.conf
                           /\ pc' = "merge"
                           /\ UNCHANGED <<stderr, exitStatus>>
       ELSE /\ pc' = "merge"
            /\ UNCHANGED <<dirs, config, stderr, exitStatus>>
    /\ UNCHANGED <<flagVars, env, cfg, remoteCmd, sshArgs, dirIdx, found, stdout,
                   lookups, child, probe>>

\* the value viper finds for a key in the current state
Lookup(key) ==
    Find(key, changed, flagHost, flagUser, flagPort, flagIdentity, env, config)

\* lines 111-117: cfg from the merged layers
Merge ==
    /\ pc = "merge"
    /\ cfg' = HostConfig(GetString(Lookup("host")), GetString(Lookup("user")),
                         GetInt(Lookup("port")), GetString(Lookup("identity")))
    /\ pc' = "validate"
    /\ UNCHANGED <<flagVars, env, dirs, config, remoteCmd, sshArgs, dirIdx, found,
                   stdout, stderr, lookups, child, exitStatus, probe>>

\* faulty variant: a port <= 0 is kept as it is
Validate_KeepsPort ==
    /\ pc = "validate"
    /\ IF cfg.Host = <<>>
       THEN Fatal("host", <<>>)
       ELSE /\ pc' = "build"
            /\ UNCHANGED <<stderr, exitStatus>>
    /\ UNCHANGED <<flagVars, env, dirs, config, cfg, remoteCmd, sshArgs, dirIdx,
                   found, stdout, lookups, child, probe>>

\* lines 119-130: host is required, a port <= 0 becomes 22
Validate ==
    /\ pc = "validate"
    /\ IF cfg.Host = <<>>
       THEN /\ Fatal("host", <<>>)
            /\ UNCHANGED cfg
       ELSE /\ cfg' = IF cfg.Port <= 0 THEN [cfg EXCEPT !.Port = DefaultPort] ELSE cfg
            /\ pc' = "build"
            /\ UNCHANGED <<stderr, exitStatus>>
    /\ UNCHANGED <<flagVars, env, dirs, config, remoteCmd, sshArgs, dirIdx, found,
                   stdout, lookups, child, probe>>

\* lines 132-136: the remote command and the ssh arguments
Build ==
    /\ pc = "build"
    /\ \E tokens \in RemoteCmds :
          /\ remoteCmd' = tokens
          /\ sshArgs' = buildSSHArgs(cfg, tokens)
    /\ pc' = "render"
    /\ UNCHANGED <<flagVars, env, dirs, config, cfg, dirIdx, found, stdout, stderr,
                   lookups, child, exitStatus, probe>>

\* faulty variant: --dry-run prints the command and goes on to run ssh
Render_DryRunContinues ==
    /\ pc = "render"
    /\ stdout' = IF flagDryRun \/ flagVerbose
                 THEN Append(stdout, CommandLine(renderCommand(<<"s", "s", "h">>, sshArgs)))
                 ELSE stdout
    /\ pc' = "lookpath"
    /\ UNCHANGED <<stderr, exitStatus>>
    /\ UNCHANGED <<flagVars, env, dirs, config, cfg, remoteCmd, sshArgs, dirIdx,
                   found, lookups, child, probe>>

\* lines 138-144: print the command for --dry-run or --verbose; --dry-run returns
Render ==
    /\ pc = "render"
    /\ stdout' = IF flagDryRun \/ flagVerbose
                 THEN Append(stdout, CommandLine(renderCommand(<<"s", "s", "h">>, sshArgs)))
                 ELSE stdout
    /\ IF flagDryRun
       THEN Exit(0)
       ELSE /\ pc' = "lookpath"
            /\ UNCHANGED <<stderr, exitStatus>>
    /\ UNCHANGED <<flagVars, env, dirs, config, cfg, remoteCmd, sshArgs, dirIdx,
                   found, lookups, child, probe>>

\* lines 146-149: exec.LookPath("ssh")
LookPath ==
    /\ pc = "lookpath"
    /\ lookups' = lookups + 1
    /\ \E present \in BOOLEAN :
          IF ~present
          THEN Fatal("nossh", <<>>)
          ELSE /\ pc' = "run"
               /\ UNCHANGED <<stderr, exitStatus>>
    /\ UNCHANGED <<flagVars, env, dirs, config, cfg, remoteCmd, sshArgs, dirIdx,
                   found, stdout, child, probe>>

\* faulty variant: every error of cmd.Run() is fatal, an exit code included
AfterRun_AnyErrorFatal(o) ==
    IF o.outcome = "exited" /\ o.code = 0 THEN Exit(0)
    ELSE Fatal("exec", <<>>)

\* what main does with the error of cmd.Run(): nil, an ExitError, or another
AfterRun(o) ==
    IF o.outcome = "exited" /\ o.code = 0 THEN Exit(0)
    ELSE IF o.outcome \in {"exited", "signaled"} THEN Exit(ExitCode(o.outcome, o.code))
    ELSE Fatal("exec", <<>>)

\* lines 151-165: run ssh and pass its exit code on
Run ==
    /\ pc = "run"
    /\ \E o \in ChildOutcomes :
          /\ child' = [spawned |-> o.outcome # "startfail", args |-> sshArgs,
                       outcome |-> o.outcome, code |-> o.code]
          /\ AfterRun(o)
    /\ UNCHANGED <<flagVars, env, dirs, config, cfg, remoteCmd, sshArgs, dirIdx,
                   found, stdout, lookups, probe>>

Next ==
    \/ Start
    \/ ListDir
    \/ ListDone
    \/ LoadConfig
    \/ Merge
    \/ Validate
    \/ Build
    \/ Render
    \/ LookPath
    \/ Run

Spec == Init /\ [][Next]_vars

-----------------------------------------------------------------------------
(* Direct calls of listTargets, buildSSHArgs and renderCommand, as the      *)
(* tests make them: main() is not running.                                  *)

NotRunning ==
    /\ pc = "off"
    /\ flagTarget = <<>>
    /\ changed = {}
    /\ flagHost = <<>>
    /\ flagUser = <<>>
    /\ flagPort = DefaultPort
    /\ flagIdentity = <<>>
    /\ flagList = FALSE
    /\ flagDryRun = FALSE
    /\ flagVerbose = FALSE
    /\ env = [k \in Fields |-> None]
    /\ dirs = <<>>
    /\ config = EmptyConfig
    /\ cfg = HostConfig(<<>>, <<>>, 0, <<>>)
    /\ remoteCmd = <<>>
    /\ sshArgs = <<>>
    /\ dirIdx = 1
    /\ found = FALSE
    /\ stdout = <<>>
    /\ stderr = <<>>
    /\ lookups = 0
    /\ child = NoChild
    /\ exitStatus = NoExit

mainVars ==
    <<pc, flagVars, env, dirs, config, cfg, remoteCmd, sshArgs, dirIdx, found,
      stdout, stderr, lookups, child, exitStatus>>

\* all strings over alphabet of length at most n
StringsUpTo(alphabet, n) == UNION {[1..k -> alphabet] : k \in 0..n}

RECURSIVE SetToSeq(_)
SetToSeq(S) ==
    IF S = {} THEN <<>>
    ELSE LET x == CHOOSE y \in S : TRUE IN <<x>> \o SetToSeq(S \ {x})

\* file names: a base name followed by an extension
FileNames ==
    {base \o ext :
        base \in {<<"a">>, <<"b">>},
        ext \in {<<>>, <<".", "y", "a", "m", "l">>, <<".", "y", "m", "l">>,
                 <<".", "Y", "M", "L">>, <<".", "Y", "a", "m", "l">>,
                 <<".", "t", "x", "t">>}}

\* os.ReadDir returns the entries sorted by file name
ReadDirOf(names, subdirs) ==
    LET sorted == SortStrings(SetToSeq(names))
    IN  Directory([i \in 1..Len(sorted) |-> Entry(sorted[i], sorted[i] \in subdirs)])

ProbedDirs ==
    {Unreadable} \cup
    {ReadDirOf(names, subdirs) :
        names \in {N \in SUBSET FileNames : Cardinality(N) <= MaxEntries},
        subdirs \in SUBSET {<<"a">>, <<"b", ".", "y", "a", "m", "l">>}}

InitList ==
    /\ NotRunning
    /\ probe \in {[fn |-> "listTargets", done |-> FALSE, dir |-> d,
                   out |-> [err |-> FALSE, names |-> <<>>]] : d \in ProbedDirs}

CallListTargets ==
    /\ probe.fn = "listTargets"
    /\ ~probe.done
    /\ probe' = [probe EXCEPT !.done = TRUE, !.out = listTargets(probe.dir)]
    /\ UNCHANGED mainVars

SpecList == InitList /\ [][CallListTargets]_vars

ProbedConfigs ==
    {HostConfig(h, u, p, i) :
        h \in {<<>>, <<"h">>}, u \in {<<>>, <<"u">>},
        p \in {0 - 1, 0, 1, 22, 23, 2222, 65535}, i \in {<<>>, <<"k">>}}

ProbedTokens ==
    StringsUpTo({<<>>, <<"l", "s">>, <<"-", "l">>}, MaxTokens)

InitBuild ==
    /\ NotRunning
    /\ probe \in {[fn |-> "buildSSHArgs", done |-> FALSE, cfg |-> c,
                   remoteCmd |-> t, out |-> <<>>] :
                      c \in ProbedConfigs, t \in ProbedTokens}

CallBuildSSHArgs ==
    /\ probe.fn = "buildSSHArgs"
    /\ ~probe.done
    /\ probe' = [probe EXCEPT !.done = TRUE,
                              !.out = buildSSHArgs(probe.cfg, probe.remoteCmd)]
    /\ UNCHANGED mainVars

SpecBuild == InitBuild /\ [][CallBuildSSHArgs]_vars

RenderAlphabet == {"a", " ", "\t", "'", "\"", "\\"}

ProbedArgs ==
    LET strs == StringsUpTo(RenderAlphabet, MaxLen)
    IN  {<<>>} \cup {<<a>> : a \in strs}
        \cup {<<a, b>> : a \in strs, b \in {<<>>, <<"a">>, <<"a", " ", "\\">>}}
        \cup {<<<<"-", "i">>, <<"k">>, <<"u", "@", "h">>, <<"l", "s">>, a>> : a \in strs}

InitRender ==
    /\ NotRunning
    /\ probe \in {[fn |-> "renderCommand", done |-> FALSE, cmd |-> <<"s", "s", "h">>,
                   args |-> a, out |-> <<>>] : a \in ProbedArgs}

CallRenderCommand ==
    /\ probe.fn = "renderCommand"
    /\ ~probe.done
    /\ probe' = [probe EXCEPT !.done = TRUE,
                              !.out = renderCommand(probe.cmd, probe.args)]
    /\ UNCHANGED mainVars

SpecRender == InitRender /\ [][CallRenderCommand]_vars

-----------------------------------------------------------------------------
(* Properties of the pure functions                                         *)

\* the file name without its extension
StripExt(name) == SubSeq(name, 1, Len(name) - Len(Ext(name)))

\* the YAML files among the entries, with the extension compared without case
YamlEntries(entries) ==
    {i \in 1..Len(entries) :
        /\ ~entries[i].isDir
        /\ ToLower(Ext(entries[i].name)) \in
              {<<".", "y", "a", "m", "l">>, <<".", "y", "m", "l">>}}

IsAscending(names) ==
    \A i \in 1..Len(names) - 1 : ~StrLess(names[i + 1], names[i])

\* C5: for a readable directory listTargets returns one name per direct
\* non-directory entry whose extension is .yaml or .yml without regard to case,
\* the name being the file name with that extension stripped, in ascending
\* order; for an unreadable directory it returns an error and no names.
C5_ListTargets ==
    (probe.fn = "listTargets" /\ probe.done) =>
        IF probe.dir.err
        THEN probe.out.err /\ probe.out.names = <<>>
        ELSE LET entries == probe.dir.entries
                 yaml == YamlEntries(entries)
                 names == probe.out.names
             IN  /\ ~probe.out.err
                 /\ Len(names) = Cardinality(yaml)
                 /\ IsAscending(names)
                 /\ \E f \in [yaml -> 1..Len(names)] :
                       /\ \A i, j \in yaml : i # j => f[i] # f[j]
                       /\ \A i \in yaml : names[f[i]] = StripExt(entries[i].name)

\* position of the first argument after the -i and -p options
C2_OptionCount(c) ==
    (IF c.Identity # <<>> THEN 2 ELSE 0) + (IF c.Port # DefaultPort THEN 2 ELSE 0)

\* s is the decimal representation of n >= 1
IsDecimalOf(s, n) == IsDigits(s) /\ s[1] # "0" /\ ParseDigits(s, 0) = n

\* C2: for a profile with non-empty host and port >= 1, buildSSHArgs returns
\* [-i, identity] iff identity is non-empty, then [-p, decimal port] iff the
\* port differs from 22, then the destination (user@host, or host when user is
\* empty), then the remote-command tokens unchanged and in order.
C2_BuildSSHArgs ==
    (probe.fn = "buildSSHArgs" /\ probe.done
        /\ probe.cfg.Host # <<>> /\ probe.cfg.Port >= 1) =>
        LET c == probe.cfg
            out == probe.out
            i0 == IF c.Identity # <<>> THEN 2 ELSE 0
            n == C2_OptionCount(c)
        IN  /\ Len(out) = n + 1 + Len(probe.remoteCmd)
            /\ c.Identity # <<>> => out[1] = <<"-", "i">> /\ out[2] = c.Identity
            /\ c.Port # DefaultPort =>
                  out[i0 + 1] = <<"-", "p">> /\ IsDecimalOf(out[i0 + 2], c.Port)
            /\ out[n + 1] = (IF c.User # <<>> THEN c.User \o <<"@">> \o c.Host
                             ELSE c.Host)
            /\ \A k \in 1..Len(probe.remoteCmd) : out[n + 1 + k] = probe.remoteCmd[k]

\* the test's profile: every option present
C2_Witness ==
    /\ probe.fn = "buildSSHArgs" /\ probe.done
    /\ probe.cfg = HostConfig(<<"h">>, <<"u">>, 2222, <<"k">>)
    /\ probe.remoteCmd = <<<<"l", "s">>, <<"-", "l">>>>
    /\ probe.out = <<<<"-", "i">>, <<"k">>, <<"-", "p">>, <<"2", "2", "2", "2">>,
                     <<"u", "@", "h">>, <<"l", "s">>, <<"-", "l">>>>

RECURSIVE Flatten(_)
Flatten(ss) == IF ss = <<>> THEN <<>> ELSE ss[1] \o Flatten(Tail(ss))

\* the argument with every backslash and double quote preceded by a backslash
C6_Escaped(a) ==
    Flatten([i \in 1..Len(a) |->
                IF a[i] \in {"\\", "\""} THEN <<"\\", a[i]>> ELSE <<a[i]>>])

C6_Rendering(a) ==
    IF \E i \in 1..Len(a) : a[i] \in {" ", "\t", "'", "\""}
    THEN <<"\"">> \o C6_Escaped(a) \o <<"\"">>
    ELSE a

\* C6: renderCommand returns cmd followed by one rendering per argument, each
\* after a single space; an argument is quoted iff it holds a space, a tab, a
\* single quote or a double quote; the quoted form doubles every backslash,
\* escapes every double quote and is wrapped in double quotes.
C6_RenderCommand ==
    (probe.fn = "renderCommand" /\ probe.done) =>
        /\ probe.out =
              probe.cmd \o Flatten([i \in 1..Len(probe.args) |->
                                       <<" ">> \o C6_Rendering(probe.args[i])])
        /\ quote(<<"a", "\"", "b">>) = <<"\"", "a", "\\", "\"", "b", "\"">>
        /\ quote(<<"a", "\\", "b">>) = <<"\"", "a", "\\", "\\", "b", "\"">>
        /\ probe.args = <<<<"a", "\"", "b">>>> =>
              probe.out = <<"s", "s", "h", " ", "\"", "a", "\\", "\"", "b", "\"">>
        /\ probe.args = <<<<"a", "\\", "b">>>> =>
              probe.out = <<"s", "s", "h", " ", "a", "\\", "b">>
        /\ probe.args = <<<<" ", "\\", "\"">>>> =>
              probe.out = <<"s", "s", "h", " ", "\"", " ", "\\", "\\", "\\", "\"", "\"">>

\* an argument with a space, a backslash and a double quote is rendered
C6_Witness ==
    /\ probe.fn = "renderCommand" /\ probe.done
    /\ probe.args = <<<<" ", "\\", "\"">>>>
    /\ probe.out = <<"s", "s", "h", " ", "\"", " ", "\\", "\\", "\\", "\"", "\"">>

-----------------------------------------------------------------------------
(* Properties of a run of main()                                            *)

FieldOf(c, f) ==
    CASE f = "host" -> c.Host
      [] f = "user" -> c.User
      [] f = "port" -> c.Port
      [] f = "identity" -> c.Identity

\* the GSSH_ variable of field f is defined and not empty
EnvSets(f) == IsSet(env[f]) /\ ValueOf(env[f]) # <<>>

\* the profile of the named target: that of the first candidate directory, in
\* search order, that holds the target's file
TargetProfile ==
    IF flagTarget = <<>> \/ dirs = <<>> THEN EmptyConfig
    ELSE LET holders == {i \in 1..Len(dirs) : dirs[i].state # "missing"}
         IN  IF holders = {} THEN EmptyConfig
             ELSE dirs[CHOOSE i \in holders : \A j \in holders : i <= j].profile

BuiltInDefault(f) == IF f = "port" THEN DefaultPort ELSE <<>>

\* the merge has run and validation has not yet changed its result
Merged == pc = "validate"

\* C1: each field of the merged profile, independently of the others, has the
\* value of the first source that sets it, in the order explicit flag, GSSH_
\* environment variable, profile file of the named target, built-in default.
C1_Precedence ==
    Merged =>
        \A f \in Fields :
            LET got == FieldOf(cfg, f)
            IN  /\ f \in changed =>
                      got = FlagValue(f, flagHost, flagUser, flagPort, flagIdentity)
                /\ (f \notin changed /\ EnvSets(f)) =>
                      IF f = "port" THEN IsDecimalOf(ValueOf(env[f]), got)
                      ELSE got = ValueOf(env[f])
                /\ (f \notin changed /\ ~EnvSets(f) /\ IsSet(TargetProfile[f])) =>
                      got = ValueOf(TargetProfile[f])
                /\ (f \notin changed /\ ~EnvSets(f) /\ ~IsSet(TargetProfile[f])) =>
                      got = BuiltInDefault(f)

\* host from the flag, user from the environment, port from the file and
\* identity from the default, in one merged profile
C1_Witness ==
    /\ Merged
    /\ changed = {"host"} /\ flagHost # <<>>
    /\ EnvSets("user") /\ ~EnvSets("port") /\ ~EnvSets("identity")
    /\ IsSet(TargetProfile["port"]) /\ ~IsSet(TargetProfile["identity"])
    /\ IsSet(TargetProfile["host"]) /\ IsSet(TargetProfile["user"])
    /\ cfg = HostConfig(flagHost, ValueOf(env["user"]),
                        ValueOf(TargetProfile["port"]), <<>>)

\* C3: when the ssh child terminates normally with exit code c (0 included),
\* the wrapper terminates with exit status c and writes no fatal error line.
C3_ExitCodePropagated ==
    child.outcome = "exited" =>
        /\ pc = "done"
        /\ exitStatus = child.code
        /\ stderr = <<>>

\* a child that exited with a non-zero code, and the wrapper with the same
C3_Witness ==
    /\ child.spawned /\ child.outcome = "exited" /\ child.code = 1
    /\ pc = "done" /\ exitStatus = 1

\* C10: when the ssh child does not end in a normal exit (it cannot be
\* started, cannot be waited on, or is killed by a signal) the wrapper writes
\* a fatal error line and exits with status 1; when ssh is absent from the
\* search path it writes the 'ssh client not found' fatal error, exits with
\* status 1 and spawns no child.
C10_AbnormalChild ==
    /\ child.outcome \in {"startfail", "waitfail", "signaled"} =>
          /\ pc = "done"
          /\ exitStatus = 1
          /\ stderr = <<FatalLine("exec", <<>>)>>
    /\ (pc = "done" /\ lookups > 0 /\ child.outcome = "none") =>
          /\ exitStatus = 1
          /\ stderr = <<FatalLine("nossh", <<>>)>>
          /\ ~child.spawned


\* C4: after the merge, an empty host ends the run in one fatal line prefixed
\* "error: " and status 1 with ssh neither looked up nor spawned; a merged
\* port <= 0 is no error and becomes 22, so that no -p is built; an empty user
\* is never an error.
C4_Validation ==
    [][/\ (pc = "validate" /\ cfg.Host = <<>>) =>
              /\ pc' = "done"
              /\ exitStatus' = 1
              /\ stderr' = <<FatalLine("host", <<>>)>>
              /\ stderr'[1].prefix = "error: "
              /\ lookups' = 0
              /\ child' = NoChild
       /\ (pc = "validate" /\ cfg.Host # <<>>) =>
              /\ pc' = "build"
              /\ exitStatus' = NoExit
              /\ stderr' = <<>>
              /\ cfg' = [cfg EXCEPT !.Port = IF cfg.Port <= 0 THEN DefaultPort
                                             ELSE cfg.Port]
       /\ (pc = "build" /\ cfg.Port = DefaultPort) =>
              \A i \in 1..Len(sshArgs') : sshArgs'[i] # <<"-", "p">>
       /\ pc # "done"]_vars

\* host set by no source, and the run ended by the validation error
C4_Witness ==
    /\ pc = "done"
    /\ "host" \notin changed /\ ~EnvSets("host") /\ ~IsSet(TargetProfile["host"])
    /\ flagTarget # <<>> /\ dirs # <<>>
    /\ cfg.Host = <<>> /\ cfg.Port <= 0 /\ cfg.User = <<>>
    /\ stderr = <<FatalLine("host", <<>>)>>
    /\ exitStatus = 1 /\ lookups = 0 /\ ~child.spawned

\* resolution succeeded: the ssh arguments are built
Resolved == sshArgs # <<>>

RenderedLine == CommandLine(renderCommand(<<"s", "s", "h">>, sshArgs))

HasCommandLine == \E i \in 1..Len(stdout) : stdout[i].kind = "cmd"

\* with --dry-run the command is printed and the run ends with status 0, ssh
\* neither looked up nor spawned; with --verbose alone the command is printed
\* before ssh is looked up or spawned, and it renders the arguments passed
C7_DryRunAndVerbose ==
    /\ flagDryRun => lookups = 0 /\ child = NoChild
    /\ (flagDryRun /\ Resolved) => pc \in {"render", "done"}
    /\ (flagDryRun /\ Resolved /\ pc = "done") =>
          /\ exitStatus = 0
          /\ stderr = <<>>
          /\ stdout = <<Banner, RenderedLine>>
    /\ (~flagDryRun /\ flagVerbose /\ (lookups > 0 \/ child.outcome # "none")) =>
          stdout = <<Banner, RenderedLine>>
    /\ child.outcome # "none" => child.args = sshArgs
    /\ (~flagDryRun /\ ~flagVerbose) => ~HasCommandLine

\* C7 as stated: with neither flag, ssh is spawned
C7_Original ==
    /\ C7_DryRunAndVerbose
    /\ (~flagDryRun /\ ~flagVerbose /\ Resolved /\ pc = "done") => child.spawned

\* C7 (amended): as C7_DryRunAndVerbose, and with neither flag ssh is looked
\* up and, when it is found, run: it is spawned unless it cannot be started.
C7_Amended ==
    /\ C7_DryRunAndVerbose
    /\ (~flagDryRun /\ ~flagVerbose /\ Resolved /\ pc = "done") =>
          /\ lookups = 1
          /\ stderr # <<FatalLine("nossh", <<>>)>> => child.outcome # "none"
          /\ child.outcome \notin {"none", "startfail"} => child.spawned

\* --verbose alone: the command, with a quoted argument, is printed and ssh runs
C7_Witness ==
    /\ ~flagDryRun /\ flagVerbose
    /\ child.spawned /\ child.args = sshArgs
    /\ \E i \in 1..Len(sshArgs) : needsQuoting(sshArgs[i])
    /\ stdout = <<Banner, RenderedLine>>

TargetLinesOf(d) == {i \in 1..Len(stdout) : stdout[i].kind = "target" /\ stdout[i].dir = d}

\* what holds of every --list run: no profile file is read, host is not
\* validated, ssh is not run, directories are listed in search order, skipped
\* directories leave no trace, "No targets found." iff no target was printed
C8_ListBody ==
    flagList =>
        /\ dirs = <<>> /\ config = EmptyConfig
        /\ cfg = HostConfig(<<>>, <<>>, 0, <<>>) /\ sshArgs = <<>>
        /\ lookups = 0 /\ child = NoChild
        /\ \A i \in 1..Len(stderr) : stderr[i].kind = "home"
        /\ \A i \in TargetLinesOf(1) : \A j \in TargetLinesOf(2) : i < j
        /\ \A i \in 1..Len(stdout) :
              /\ stdout[i].kind \in {"banner", "target", "none"}
              /\ stdout[i].kind = "target" => stdout[i].dir < dirIdx
              /\ stdout[i].kind = "none" => i = Len(stdout) /\ pc = "done"
        /\ found <=> (TargetLinesOf(1) \cup TargetLinesOf(2) # {})
        /\ (pc = "done" /\ stderr = <<>>) =>
              /\ dirIdx = 3
              /\ (stdout[Len(stdout)] = NoTargetsLine) <=> ~found

\* C8 as stated: every run with --list ends with exit status 0
C8_Original ==
    /\ C8_ListBody
    /\ (flagList /\ pc = "done") => exitStatus = 0

\* C8 (amended): every run with --list in which the home directory can be
\* determined ends with exit status 0 after listing the candidate directories
\* in search order; otherwise it ends in the fatal error of os.UserHomeDir
\* before any directory is listed.
C8_Amended ==
    /\ C8_ListBody
    /\ (flagList /\ pc = "done") =>
          \/ stderr = <<>> /\ exitStatus = 0
          \/ stderr = <<FatalLine("home", <<>>)>> /\ exitStatus = 1 /\ dirIdx = 1

\* --list with a target and a host given: the first directory is skipped, the
\* second lists two targets in ascending order
C8_Witness ==
    /\ flagList /\ flagTarget # <<>> /\ "host" \in changed
    /\ pc = "done" /\ exitStatus = 0
    /\ stdout = <<Banner, TargetLine(<<"b">>, 2), TargetLine(<<"i", "p", "a">>, 2)>>

\* the target's file is not found, or the first one found cannot be parsed
Unloadable ==
    LET holders == {i \in 1..Len(dirs) : dirs[i].state # "missing"}
    IN  \/ holders = {}
        \/ dirs[CHOOSE i \in holders : \A j \in holders : i <= j].state = "bad"

ConfigFatal ==
    /\ pc = "done"
    /\ exitStatus = 1
    /\ stderr = <<FatalLine("config", flagTarget)>>
    /\ cfg = HostConfig(<<>>, <<>>, 0, <<>>)
    /\ sshArgs = <<>> /\ lookups = 0 /\ child = NoChild

\* the value of field f when no profile file takes part
NoFileValue(f, got) ==
    IF f \in changed
    THEN got = FlagValue(f, flagHost, flagUser, flagPort, flagIdentity)
    ELSE IF EnvSets(f)
    THEN (IF f = "port" THEN IsDecimalOf(ValueOf(env[f]), got)
          ELSE got = ValueOf(env[f]))
    ELSE got = BuiltInDefault(f)

\* what holds once the profile file has been searched, and without a target
C9_LoadBody ==
    /\ dirs # <<>> =>
          /\ flagTarget # <<>>
          /\ IF Unloadable THEN ConfigFatal
             ELSE /\ config = TargetProfile
                  /\ \A i \in 1..Len(stderr) : stderr[i].kind # "config"
    /\ flagTarget = <<>> =>
          /\ dirs = <<>> /\ config = EmptyConfig
          /\ Merged => \A f \in Fields : NoFileValue(f, FieldOf(cfg, f))

\* C9 as stated: whenever a target name is supplied the profile file is
\* searched
C9_Original ==
    /\ C9_LoadBody
    /\ (flagTarget # <<>> /\ pc = "done") => dirs # <<>>

\* C9 (amended): if a target name is supplied, --list is not given and the
\* home directory can be determined, the profile file is searched in the
\* candidate directories in order and the first directory holding it supplies
\* the values; if none holds it or it cannot be parsed the run ends in a fatal
\* error naming the target, before validation and without ssh.  Without a
\* target no profile file is read.
C9_Amended ==
    /\ C9_LoadBody
    /\ (flagTarget # <<>> /\ pc \notin {"start", "load"}) =>
          \/ dirs # <<>>
          \/ flagList
          \/ pc = "done" /\ stderr = <<FatalLine("home", <<>>)>>

\* the target's file is in no directory while --host and GSSH_HOST are set
C9_Witness ==
    /\ flagTarget # <<>> /\ ~flagList
    /\ "host" \in changed /\ flagHost # <<>> /\ EnvSets("host")
    /\ dirs = <<Missing, Missing>>
    /\ ConfigFatal

=============================================================================
